---------------------------- MODULE Spec2Model ----------------------------
(***************************************************************************)
(* The traffic-congestion dashboard script (static/diagram.js and its      *)
(* extended copy with the "advanced features"): request handlers, the      *)
(* results and comparison presenters, histogram binning and the            *)
(* recommendation rules, as a state machine over the page state.           *)
(*                                                                         *)
(* Numbers.  The metrics of a SimulationResult are kept in thousandths     *)
(* (avg_max_queue = 100.0 is 100000, avg_service_rate = 0.7 is 700), so    *)
(* that the code's comparisons and toFixed roundings are integer           *)
(* arithmetic.  The samples of all_max_queues are whole numbers; the bin   *)
(* bounds computed from them are IEEE 754 doubles, kept by their exact     *)
(* value and rounded to 53 significant bits after every operation, as the  *)
(* script's arithmetic is.  Text put into the page is kept as the string   *)
(* the code produces ("100.0", "NaN", "5-6").                              *)
(***************************************************************************)
EXTENDS Integers, Sequences, FiniteSets, Bags, TLC

VARIABLES
    extended,             \* TRUE: the extended script, FALSE: static/diagram.js
    dom,                  \* the elements of the page the script reads and writes
    histogramChart,       \* global handle: the Chart it refers to, or NoChart
    timeSeriesChart,      \* global handle
    comparisonChart,      \* global handle
    charts,               \* per canvas, the number of live (not destroyed) Charts
    currentResult,        \* extended script: last payload handed to displayResults
    currentScenarioName,  \* extended script
    inflight,             \* the suspended async handlers (a bag of requests)
    alerts                \* the alert() notices raised by the latest handler run

vars == << extended, dom, histogramChart, timeSeriesChart, comparisonChart,
           charts, currentResult, currentScenarioName, inflight, alerts >>

-----------------------------------------------------------------------------
(* Bounds of the model *)

\* the most async handlers suspended at one time
MaxInFlight == 2

\* the longest all_max_queues sample set of the binning specification
MaxSamples == 3

\* the most scenarios in a mapping of the comparison specification
MaxScenarios == 3

-----------------------------------------------------------------------------
(* Values *)

\* JavaScript null, as a payload
Null == [null |-> TRUE]

IsNull(d) == "null" \in DOMAIN d

\* d.f is not undefined
Has(d, f) == f \in DOMAIN d

RECURSIVE Pow10(_)
Pow10(d) == IF d = 0 THEN 1 ELSE 10 * Pow10(d - 1)

Digits(n, d) == IF d = 2 /\ n < 10 THEN "0" \o ToString(n) ELSE ToString(n)

\* Number.prototype.toFixed(d) of x thousandths, x >= 0: the decimal string of
\* the nearest multiple of 10^-d
toFixed(x, d) ==
    LET n == (x * Pow10(d) + 500) \div 1000
    IN  IF d = 0 THEN ToString(n)
        ELSE ToString(n \div Pow10(d)) \o "." \o Digits(n % Pow10(d), d)

\* String.prototype.toUpperCase on the traffic levels
toUpperCase(s) ==
    CASE s = "light"    -> "LIGHT"
      [] s = "moderate" -> "MODERATE"
      [] s = "severe"   -> "SEVERE"
      [] OTHER          -> s

RECURSIVE SeqMin(_)
SeqMin(s) == IF Len(s) = 1 THEN s[1]
             ELSE LET m == SeqMin(Tail(s)) IN IF s[1] < m THEN s[1] ELSE m

RECURSIVE SeqMax(_)
SeqMax(s) == IF Len(s) = 1 THEN s[1]
             ELSE LET m == SeqMax(Tail(s)) IN IF s[1] > m THEN s[1] ELSE m


-----------------------------------------------------------------------------
(* What the backend can answer *)

\* d without its field f
Without(d, f) == [k \in DOMAIN d \ {f} |-> d[k]]

\* a SimulationResult below every threshold
ClearResult ==
    [avg_max_queue |-> 10000, avg_waiting_time |-> 2000, avg_service_rate |-> 950,
     avg_accidents_per_hour |-> 0, traffic_level |-> "light",
     traffic_level_description |-> "Light traffic",
     prob_light_traffic |-> 900, prob_moderate_jam |-> 90, prob_severe_jam |-> 10,
     all_max_queues |-> << 5, 10, 10 >>, sample_queue_history |-> << 0, 5 >>,
     scenario_name |-> "baseline"]

\* a SimulationResult above every threshold
JamResult ==
    [avg_max_queue |-> 120500, avg_waiting_time |-> 12340, avg_service_rate |-> 650,
     avg_accidents_per_hour |-> 2500, traffic_level |-> "severe",
     traffic_level_description |-> "Severe congestion",
     prob_light_traffic |-> 100, prob_moderate_jam |-> 300, prob_severe_jam |-> 600,
     all_max_queues |-> << 100, 120 >>, sample_queue_history |-> << 0, 20, 40 >>]

\* the fields an incomplete body of the model lacks, one at a time
LackingFields == {"traffic_level", "sample_queue_history", "avg_accidents_per_hour"}

\* the body of an error answer: an object with none of the fields
ErrorBody == [error |-> "Internal Server Error"]

\* bodies of a 2xx answer to a simulation request: complete, or lacking one field
SimulationBodies ==
    {ClearResult, JamResult} \cup {Without(JamResult, f) : f \in LackingFields}

\* the summary of one scenario in a comparison
Summary(d) == [k \in {"avg_max_queue", "avg_waiting_time", "avg_service_rate",
                      "prob_severe_jam"} |-> d[k]]

Entry(name, result) == [scenario |-> name, result |-> result]

\* bodies of a 2xx answer to a comparison request: complete, or with a summary
\* lacking a field
ComparisonBodies ==
    { << Entry("baseline", Summary(JamResult)), Entry("optimized", Summary(ClearResult)) >>,
      << Entry("baseline", Summary(JamResult)),
         Entry("optimized", Without(Summary(ClearResult), "avg_waiting_time")) >> }

\* the error object as a mapping: its one entry is a string, which has no metric
ErrorMapping == << Entry("error", [message |-> "Internal Server Error"]) >>

\* what response.json() can resolve to for a request of this kind and status
Bodies(kind, ok) ==
    IF kind = "comparison"
    THEN (IF ok THEN ComparisonBodies ELSE {ErrorMapping})
    ELSE (IF ok THEN SimulationBodies ELSE {ErrorBody})

-----------------------------------------------------------------------------
(* The page state a handler works on, and the outcome of a call *)

\* The state the script's functions read and write, as one record
Page == [dom                 |-> dom,
         histogramChart      |-> histogramChart,
         timeSeriesChart     |-> timeSeriesChart,
         comparisonChart     |-> comparisonChart,
         charts              |-> charts,
         currentResult       |-> currentResult,
         currentScenarioName |-> currentScenarioName,
         alerts              |-> << >>]

\* the call returned normally, leaving the page pg
Return(pg) == [pg |-> pg, threw |-> FALSE]

\* the call threw (a TypeError), leaving the page pg
Throw(pg) == [pg |-> pg, threw |-> TRUE]

\* an optional argument: << v >> for the value d.f, << >> for undefined
Field(d, f) == IF Has(d, f) THEN << d[f] >> ELSE << >>

\* document.getElementById(id).<property> = v
SetDom(pg, id, v) == [pg EXCEPT !.dom[id] = v]

\* alert(msg)
Alert(pg, msg) == [pg EXCEPT !.alerts = Append(@, msg)]

-----------------------------------------------------------------------------
(* Chart.js instances.  A global handle holds null (NoChart) or the one     *)
(* Chart it refers to; charts counts the live instances on each canvas.    *)

\* null, as the value of a chart handle
NoChart == [live |-> FALSE, null |-> TRUE]

\* a Chart after destroy()
Destroyed == [live |-> FALSE]

\* chart.destroy() on the handle: the instance leaves its canvas (destroying a
\* destroyed chart changes nothing)
Destroy(pg, handle, canvas) ==
    IF pg[handle].live
    THEN [pg EXCEPT ![handle] = Destroyed, !.charts[canvas] = @ - 1]
    ELSE pg

\* handle = new Chart(ctx, {type, data: {labels, datasets}}) on the canvas
NewChart(pg, handle, canvas, type, labels, datasets) ==
    [pg EXCEPT ![handle] = [live |-> TRUE, type |-> type, labels |-> labels,
                            datasets |-> datasets],
               !.charts[canvas] = @ + 1]

-----------------------------------------------------------------------------
(* Histogram binning *)

bins == 20

\* The doubles of the binning are not negative and, unless 0, at least 1/32 and
\* below 2^14.  Such a double is a multiple of 2^-57 and is kept as
\* << a, b1, b2, b3 >> for a + b1/Limb + b2/Limb^2 + b3/Limb^3.  The operations
\* are functions, so that an operand is a value when the operation reads it.
Limb == 2^19

Number == Nat \X Nat \X Nat \X Nat

\* the double of a whole number
ToNumber(n) == << n, 0, 0, 0 >>

\* the digits of an exact value brought back into 0 .. Limb-1
Carry ==
    [x \in Number |->
        LET c3 == x[4] \div Limb
            c2 == (x[3] + c3) \div Limb
            c1 == (x[2] + c2) \div Limb
        IN  << x[1] + c1, (x[2] + c2) % Limb, (x[3] + c3) % Limb, x[4] % Limb >>]

RECURSIVE BitLength(_)
BitLength(n) == IF n = 0 THEN 0 ELSE 1 + BitLength(n \div 2)

\* the number of low bits of x that do not fit the 53-bit significand
Excess(x) ==
    IF x[1] > 0 THEN BitLength(x[1]) + 4
    ELSE IF BitLength(x[2]) > 15 THEN BitLength(x[2]) - 15 ELSE 0

\* x with its k low bits cleared, and one unit of bit k added if up
Rounded(x, k, up) ==
    Carry[<< x[1], x[2], x[3], x[4] - (x[4] % 2^k) + (IF up THEN 2^k ELSE 0) >>]

\* Round to nearest, ties to even: the double of the exact value x + t, where t
\* is less than one unit of the last digit of x and rest tells t = 0 (0),
\* t < 1/2 unit (1), t = 1/2 unit (2) or t > 1/2 unit (3).  A value with no digit
\* after b1 has at most 33 significant bits and is a double as it is.
Round ==
    [x \in Number, rest \in 0..3 |->
        IF x[3] = 0 /\ x[4] = 0 /\ rest = 0 THEN x
        ELSE LET k   == Excess(x)
                 r   == x[4] % 2^k
                 odd == (x[4] \div 2^k) % 2 = 1
             IN  Rounded(x, k, IF k = 0 THEN rest = 3 \/ (rest = 2 /\ odd)
                               ELSE \/ 2 * r > 2^k
                                    \/ 2 * r = 2^k /\ (rest > 0 \/ odd))]

\* x + y of two doubles
Plus ==
    [x \in Number, y \in Number |->
        Round[Carry[<< x[1] + y[1], x[2] + y[2], x[3] + y[3], x[4] + y[4] >>], 0]]

\* i * x of a loop index and a double
Times ==
    [i \in Nat, x \in Number |->
        Round[Carry[<< i * x[1], i * x[2], i * x[3], i * x[4] >>], 0]]

\* the digits of r / n after the point, for a remainder r < n, and what is left
Digit(r, n) == (r * Limb) \div n

Left(r, n) == (r * Limb) % n

\* d / n of two whole numbers
Quotient ==
    [d \in Nat, n \in Nat |->
        LET r0 == d % n
            r1 == Left(r0, n)
            r2 == Left(r1, n)
            r3 == Left(r2, n)
        IN  Round[<< d \div n, Digit(r0, n), Digit(r1, n), Digit(r2, n) >>,
                  IF r3 = 0 THEN 0 ELSE IF 2 * r3 < n THEN 1
                  ELSE IF 2 * r3 = n THEN 2 ELSE 3]]

\* x < y of two doubles
Less ==
    [x \in Number, y \in Number |->
        IF x[1] # y[1] THEN x[1] < y[1]
        ELSE IF x[2] # y[2] THEN x[2] < y[2]
        ELSE IF x[3] # y[3] THEN x[3] < y[3]
        ELSE x[4] < y[4]]

\* Number.prototype.toFixed(0) of a double: the nearest whole number, the larger
\* of two
toFixed0(x) == ToString(x[1] + (IF 2 * x[2] >= Limb THEN 1 ELSE 0))

\* binWidth = (max - min) / bins
binWidth(min, max) == Quotient[max - min, bins]

\* binStart = min + i * binWidth
binStart(min, width, i) == Plus[ToNumber(min), Times[i, width]]

\* binEnd = binStart + binWidth
binEnd(start, width) == Plus[start, width]

\* the filter predicate of a bin: x >= binStart && x < binEnd
InBin(start, end, x) == ~Less[ToNumber(x), start] /\ Less[ToNumber(x), end]

\* data.filter(x => x >= binStart && x < binEnd).length
CountInBin(data, start, end) ==
    Cardinality({k \in DOMAIN data : InBin(start, end, data[k])})

\* what a pass of the loop pushes to histogram and to labels for a bin of these
\* bounds
Pushed ==
    [data \in Seq(Nat), start \in Number, end \in Number |->
        [start |-> start, end |-> end,
         count |-> CountInBin(data, start, end),
         label |-> toFixed0(start) \o "-" \o toFixed0(end)]]

\* the bounds of the bin that starts at start
Bounded ==
    [data \in Seq(Nat), start \in Number, width \in Number |->
        Pushed[data, start, binEnd(start, width)]]

\* one pass of the loop: the bounds of bin i, what it pushes to histogram and
\* what it pushes to labels
Bin(data, min, width, i) == Bounded[data, binStart(min, width, i), width]

\* the passes i, i+1, ... bins-1 of the loop
RECURSIVE BinsFrom(_, _, _, _)
BinsFrom(data, min, width, i) ==
    IF i = bins THEN << >>
    ELSE << Bin(data, min, width, i) >> \o BinsFrom(data, min, width, i + 1)

\* the loop with min and binWidth as computed before it
Passes == [data \in Seq(Nat), min \in Nat, width \in Number |->
              BinsFrom(data, min, width, 0)]

\* for (let i = 0; i < bins; i++) { ... } on a non-empty array
Bins(data) == Passes[data, SeqMin(data), binWidth(SeqMin(data), SeqMax(data))]

\* the histogram array after the loop
histogram(loop) == [i \in DOMAIN loop |-> loop[i].count]

\* the labels array after the loop
labels(loop) == [i \in DOMAIN loop |-> loop[i].label]

\* createHistogram that constructs the new Chart without destroying the old one
createHistogram_NoDestroy(pg, data) ==
    IF data = << >> THEN Throw(pg)
    ELSE LET loop == Bins(data[1])
         IN  Return(NewChart(pg, "histogramChart", "histogramChart", "bar",
                             labels(loop), histogram(loop)))

\* createHistogram(data); data is << array >>, or << >> for undefined
createHistogram(pg, data) ==
    LET p1 == IF pg.histogramChart # NoChart
              THEN Destroy(pg, "histogramChart", "histogramChart") ELSE pg
    IN  IF data = << >> THEN Throw(p1)     \* Math.min(...undefined)
        ELSE LET loop == Bins(data[1])
             IN  Return(NewChart(p1, "histogramChart", "histogramChart", "bar",
                                 labels(loop), histogram(loop)))

\* createTimeSeries(data); data is << array >>, or << >> for undefined
createTimeSeries(pg, data) ==
    LET p1 == IF pg.timeSeriesChart # NoChart
              THEN Destroy(pg, "timeSeriesChart", "timeSeriesChart") ELSE pg
    IN  IF data = << >> THEN Throw(p1)     \* undefined.map
        ELSE Return(NewChart(p1, "timeSeriesChart", "timeSeriesChart", "line",
                             [i \in DOMAIN data[1] |-> i], data[1]))

-----------------------------------------------------------------------------
(* Recommendation rules *)

\* one entry of the recommendations array, with the metric text it interpolates
Rec(type, title, value) == [type |-> type, title |-> title, value |-> value]

\* data.f > t; a comparison with undefined is false
Above(data, f, t) == Has(data, f) /\ data[f] > t

\* data.f < t; a comparison with undefined is false
Below(data, f, t) == Has(data, f) /\ data[f] < t

\* QueueRule with the upper threshold taken inclusively (>= 100)
QueueRule_Inclusive(data) ==
    IF Has(data, "avg_max_queue") /\ data.avg_max_queue >= 100000
    THEN << Rec("critical", "Critical: Very High Queue Length",
                toFixed(data.avg_max_queue, 1)) >>
    ELSE IF Above(data, "avg_max_queue", 60000)
    THEN << Rec("warning", "Warning: Moderate Congestion",
                toFixed(data.avg_max_queue, 1)) >>
    ELSE << >>

\* if (avg_max_queue > 100) ... else if (avg_max_queue > 60) ...
QueueRule(data) ==
    IF Above(data, "avg_max_queue", 100000)
    THEN << Rec("critical", "Critical: Very High Queue Length",
                toFixed(data.avg_max_queue, 1)) >>
    ELSE IF Above(data, "avg_max_queue", 60000)
    THEN << Rec("warning", "Warning: Moderate Congestion",
                toFixed(data.avg_max_queue, 1)) >>
    ELSE << >>

\* if (avg_service_rate < 0.7)
ServiceRule(data) ==
    IF Below(data, "avg_service_rate", 700)
    THEN << Rec("critical", "Critical: Low Service Rate",
                toFixed(data.avg_service_rate * 100, 1)) >>
    ELSE << >>

\* if (avg_waiting_time > 10)
WaitingRule(data) ==
    IF Above(data, "avg_waiting_time", 10000)
    THEN << Rec("warning", "High Waiting Time", toFixed(data.avg_waiting_time, 2)) >>
    ELSE << >>

\* if (avg_accidents_per_hour > 2)
AccidentRule(data) ==
    IF Above(data, "avg_accidents_per_hour", 2000)
    THEN << Rec("info", "High Accident Frequency",
                toFixed(data.avg_accidents_per_hour, 2)) >>
    ELSE << >>

\* if (prob_severe_jam > 0.2)
SevereRule(data) ==
    IF Above(data, "prob_severe_jam", 200)
    THEN << Rec("critical", "High Severe Jam Probability",
                toFixed(data.prob_severe_jam * 100, 1)) >>
    ELSE << >>

\* recommendations with the rule blocks evaluated in the opposite order
recommendations_Reversed(data) ==
    SevereRule(data) \o AccidentRule(data) \o WaitingRule(data)
        \o ServiceRule(data) \o QueueRule(data)

\* the recommendations array after the five rule blocks
recommendations(data) ==
    QueueRule(data) \o ServiceRule(data) \o WaitingRule(data)
        \o AccidentRule(data) \o SevereRule(data)

\* the paragraph shown when the array is empty
NoIssues == [tag |-> "p", className |-> "",
             title |-> "No critical issues detected. Traffic flow is optimal.",
             value |-> ""]

\* the div appended for one recommendation
RecItem(rec) == [tag |-> "div", className |-> "recommendation-item " \o rec.type,
                 title |-> rec.title, value |-> rec.value]

\* RecChildren without the branch for an empty array
RecChildren_NoBranch(recs) == [i \in DOMAIN recs |-> RecItem(recs[i])]

\* the children of the container after the display block
RecChildren(recs) ==
    IF Len(recs) = 0 THEN << NoIssues >>
    ELSE [i \in DOMAIN recs |-> RecItem(recs[i])]

\* generateRecommendations that appends to the container without emptying it
generateRecommendations_Accumulate(pg, data) ==
    IF IsNull(data) THEN Throw(pg)
    ELSE Return(SetDom(pg, "recommendationsList",
                       pg.dom.recommendationsList \o RecChildren(recommendations(data))))

\* generateRecommendations(data)
generateRecommendations(pg, data) ==
    LET p1 == SetDom(pg, "recommendationsList", << >>)
    IN  IF IsNull(data) THEN Throw(p1)
        ELSE Return(SetDom(p1, "recommendationsList",
                           RecChildren(recommendations(data))))

-----------------------------------------------------------------------------
(* Results presenter *)

\* (probability * 100).toFixed(1); of undefined it is "NaN"
Percentage(probability) ==
    IF probability = << >> THEN "NaN" ELSE toFixed(probability[1] * 100, 1)

\* updateProbability(barId, valueId, probability); the style declaration keeps
\* its old width when it is given the invalid length "NaN%"
updateProbability(pg, barId, valueId, probability) ==
    LET percentage == Percentage(probability)
        p1 == IF percentage = "NaN" THEN pg ELSE SetDom(pg, barId, percentage \o "%")
    IN  SetDom(p1, valueId, percentage \o "%")

\* displayResults, the statements up to the charts; cannot be entered with null
DisplayMetrics(pg, data) ==
    LET p1 == SetDom(pg, "results", "block")
    IN  IF ~Has(data, "avg_max_queue") THEN Throw(p1) ELSE
    LET p2 == SetDom(p1, "avgQueue", toFixed(data.avg_max_queue, 1))
    IN  IF ~Has(data, "avg_waiting_time") THEN Throw(p2) ELSE
    LET p3 == SetDom(p2, "avgWait", toFixed(data.avg_waiting_time, 2))
        p4 == SetDom(p3, "serviceRate", Percentage(Field(data, "avg_service_rate")))
    IN  IF ~Has(data, "traffic_level")
        THEN Throw(SetDom(p4, "trafficLevelCard", "metric-card traffic-undefined")) ELSE
    LET p5 == SetDom(p4, "trafficLevelCard", "metric-card traffic-" \o data.traffic_level)
        p6 == SetDom(p5, "trafficLevel", toUpperCase(data.traffic_level))
        p7 == SetDom(p6, "trafficDesc",
                     IF Has(data, "traffic_level_description")
                     THEN data.traffic_level_description ELSE "")
        p8 == updateProbability(p7, "probLight", "probLightVal",
                                Field(data, "prob_light_traffic"))
        p9 == updateProbability(p8, "probModerate", "probModerateVal",
                                Field(data, "prob_moderate_jam"))
    IN  Return(updateProbability(p9, "probSevere", "probSevereVal",
                                 Field(data, "prob_severe_jam")))

\* function displayResults(data) of both scripts
originalDisplayResults(pg, data) ==
    IF IsNull(data) THEN Throw(SetDom(pg, "results", "block")) ELSE
    LET r1 == DisplayMetrics(pg, data)
    IN  IF r1.threw THEN r1 ELSE
    LET r2 == createHistogram(r1.pg, Field(data, "all_max_queues"))
    IN  IF r2.threw THEN r2 ELSE
    LET r3 == createTimeSeries(r2.pg, Field(data, "sample_queue_history"))
    IN  IF r3.threw THEN r3 ELSE generateRecommendations(r3.pg, data)

\* wrappedDisplayResults that appends the export buttons without looking for them
wrappedDisplayResults_AlwaysAppends(pg, data) ==
    LET p1 == [pg EXCEPT !.currentResult = data]
    IN  IF IsNull(data) THEN Throw(p1) ELSE
    LET p2 == [p1 EXCEPT !.currentScenarioName =
                   IF Has(data, "scenario_name") /\ data.scenario_name # ""
                   THEN data.scenario_name ELSE "simulation"]
        r  == originalDisplayResults(p2, data)
    IN  IF r.threw THEN r
        ELSE Return(SetDom(r.pg, "exportButtons", r.pg.dom.exportButtons + 1))

\* the extended script's replacement of displayResults
wrappedDisplayResults(pg, data) ==
    LET p1 == [pg EXCEPT !.currentResult = data]
    IN  IF IsNull(data) THEN Throw(p1) ELSE
    LET p2 == [p1 EXCEPT !.currentScenarioName =
                   IF Has(data, "scenario_name") /\ data.scenario_name # ""
                   THEN data.scenario_name ELSE "simulation"]
        r  == originalDisplayResults(p2, data)
    IN  IF r.threw THEN r
        ELSE IF r.pg.dom.exportButtons = 0
             THEN Return(SetDom(r.pg, "exportButtons", 1))
             ELSE r

\* what the name displayResults is bound to when a handler calls it
displayResults(pg, data) ==
    IF extended THEN wrappedDisplayResults(pg, data)
    ELSE originalDisplayResults(pg, data)

-----------------------------------------------------------------------------
(* Comparison presenter.  A comparison payload is the sequence of its          *)
(* (scenario, result) entries in the mapping's iteration order.                *)

\* scenarios.map(s => data[s].f): the value, or << >> for undefined
Column(data, f) == [i \in DOMAIN data |-> Field(data[i].result, f)]

\* one <tr> of the table
TableRow(entry) ==
    [scenario |-> entry.scenario,
     queue    |-> toFixed(entry.result.avg_max_queue, 1) \o " vehicles",
     waiting  |-> toFixed(entry.result.avg_waiting_time, 2) \o " min",
     service  |-> Percentage(Field(entry.result, "avg_service_rate")) \o "%",
     severe   |-> Percentage(Field(entry.result, "prob_severe_jam")) \o "%"]

\* a row whose cells can be formatted: result.f.toFixed does not throw
RowOk(entry) ==
    Has(entry.result, "avg_max_queue") /\ Has(entry.result, "avg_waiting_time")

\* createComparisonTable with the rows in the opposite order
createComparisonTable_Reversed(pg, data) ==
    IF \E i \in DOMAIN data : ~RowOk(data[i]) THEN Throw(pg)
    ELSE Return(SetDom(pg, "comparisonTable",
                       [i \in DOMAIN data |-> TableRow(data[Len(data) + 1 - i])]))

\* createComparisonTable(data): container.innerHTML is only assigned at the end
createComparisonTable(pg, data) ==
    IF \E i \in DOMAIN data : ~RowOk(data[i]) THEN Throw(pg)
    ELSE Return(SetDom(pg, "comparisonTable",
                       [i \in DOMAIN data |-> TableRow(data[i])]))

\* displayComparison(data)
displayComparison(pg, data) ==
    LET p1 == SetDom(pg, "comparisonResults", "block")
        p2 == IF p1.comparisonChart # NoChart
              THEN Destroy(p1, "comparisonChart", "comparisonChart") ELSE p1
        p3 == NewChart(p2, "comparisonChart", "comparisonChart", "bar",
                       [i \in DOMAIN data |-> data[i].scenario],
                       << Column(data, "avg_max_queue"),
                          Column(data, "avg_waiting_time") >>)
    IN  createComparisonTable(p3, data)

-----------------------------------------------------------------------------
(* The page as loaded *)

\* the elements of the page before any handler has run
InitialDom ==
    [loading |-> "none", results |-> "none", comparisonResults |-> "none",
     btnDisabled |-> FALSE, btnText |-> "Run Simulation",
     avgQueue |-> "", avgWait |-> "", serviceRate |-> "",
     trafficLevelCard |-> "metric-card", trafficLevel |-> "", trafficDesc |-> "",
     probLight |-> "0%", probLightVal |-> "", probModerate |-> "0%",
     probModerateVal |-> "", probSevere |-> "0%", probSevereVal |-> "",
     recommendationsList |-> << >>, comparisonTable |-> << >>, exportButtons |-> 0]

\* the names of the three canvases, which are those of their handles
Canvases == {"histogramChart", "timeSeriesChart", "comparisonChart"}

\* a suspended async handler: its kind and (history) whether the results panel
\* was displayed when the handler was triggered
Request(kind, shown) == [kind |-> kind, shown |-> shown]

Init ==
    /\ extended \in BOOLEAN
    /\ dom = InitialDom
    /\ histogramChart = NoChart
    /\ timeSeriesChart = NoChart
    /\ comparisonChart = NoChart
    /\ charts = [c \in Canvases |-> 0]
    /\ currentResult = Null
    /\ currentScenarioName = ""
    /\ inflight = EmptyBag
    /\ alerts = << >>

\* the handler run leaves the page pg
Commit(pg) ==
    /\ dom' = pg.dom
    /\ histogramChart' = pg.histogramChart
    /\ timeSeriesChart' = pg.timeSeriesChart
    /\ comparisonChart' = pg.comparisonChart
    /\ charts' = pg.charts
    /\ currentResult' = pg.currentResult
    /\ currentScenarioName' = pg.currentScenarioName
    /\ alerts' = pg.alerts

-----------------------------------------------------------------------------
(* The handlers up to their first await *)

\* BeginSimulation that leaves the run button enabled
BeginSimulation_NoDisable(pg) ==
    LET p1 == SetDom(pg, "loading", "block")
        p2 == SetDom(p1, "results", "none")
    IN  SetDom(p2, "comparisonResults", "none")

\* runSimulation, lines 63-74
BeginSimulation(pg) ==
    LET p1 == SetDom(pg, "loading", "block")
        p2 == SetDom(p1, "results", "none")
        p3 == SetDom(p2, "comparisonResults", "none")
        p4 == SetDom(p3, "btnDisabled", TRUE)
    IN  SetDom(p4, "btnText", "Running...")

\* The run button is clicked (a disabled button dispatches no click).
RunSimulation ==
    /\ ~dom.btnDisabled
    /\ BagCardinality(inflight) < MaxInFlight
    /\ Commit(BeginSimulation(Page))
    /\ inflight' = inflight (+) SetToBag({Request("simulation", dom.results = "block")})
    /\ UNCHANGED extended

\* compareScenarios, lines 326-328
BeginComparison(pg) ==
    LET p1 == SetDom(pg, "loading", "block")
        p2 == SetDom(p1, "results", "none")
    IN  SetDom(p2, "comparisonResults", "none")

\* The compare button is clicked.
CompareScenarios ==
    /\ BagCardinality(inflight) < MaxInFlight
    /\ Commit(BeginComparison(Page))
    /\ inflight' = inflight (+) SetToBag({Request("comparison", dom.results = "block")})
    /\ UNCHANGED extended

\* simulateAdvancedPattern up to its fetch
BeginAdvanced(pg) == SetDom(pg, "loading", "block")

\* The Advanced Patterns button of the extended script is clicked and the prompt
\* answered with a scenario type (a cancelled prompt returns at once).
SimulateAdvancedPattern ==
    /\ extended
    /\ BagCardinality(inflight) < MaxInFlight
    /\ Commit(BeginAdvanced(Page))
    /\ inflight' = inflight (+) SetToBag({Request("advanced", dom.results = "block")})
    /\ UNCHANGED extended

-----------------------------------------------------------------------------
(* The handlers from their awaits on: try body, catch and finally *)

\* the notice of the handler's catch block
FailureNotice(kind) ==
    CASE kind = "simulation" -> "Simulation failed. Please try again."
      [] kind = "comparison" -> "Comparison failed. Please try again."
      [] kind = "advanced"   -> "Advanced simulation failed."

\* catch (error) { console.error(...); alert(...) }
Catch(pg, kind) == Alert(pg, FailureNotice(kind))

\* the finally block of runSimulation, lines 100-103
FinallySimulation(pg) ==
    LET p1 == SetDom(pg, "loading", "none")
        p2 == SetDom(p1, "btnDisabled", FALSE)
    IN  SetDom(p2, "btnText", "Run Simulation")

\* the finally block of compareScenarios and of simulateAdvancedPattern
FinallyOther(pg) == SetDom(pg, "loading", "none")

Finally(pg, kind) ==
    IF kind = "simulation" THEN FinallySimulation(pg) ELSE FinallyOther(pg)

\* the call the try body makes with the parsed body
Render(pg, kind, data) ==
    IF kind = "comparison" THEN displayComparison(pg, data)
    ELSE displayResults(pg, data)

\* the rest of a handler whose awaited promise rejected
Failed(pg, kind) == Finally(Catch(pg, kind), kind)

\* Completed with the cleanup at the end of the try body instead of in finally
Completed_CleanupInTry(pg, kind, data) ==
    LET r == Render(pg, kind, data)
    IN  IF r.threw THEN Catch(r.pg, kind) ELSE Finally(r.pg, kind)

\* the rest of a handler whose response.json() resolved to data
Completed(pg, kind, data) ==
    LET r == Render(pg, kind, data)
    IN  Finally(IF r.threw THEN Catch(r.pg, kind) ELSE r.pg, kind)

\* Settled for a handler that sends its request again instead of returning
Settled_Resent(req) == inflight' = inflight

\* the handler req has run to its end
Settled(req) == inflight' = inflight (-) SetToBag({req})

\* A handler is resumed from `await fetch(...)` and `await response.json()`.
\* Between the two awaits it changes nothing and reads nothing of the page, so
\* both resumptions are one step, taken when the body has arrived.

\* fetch rejects: the transport failed.
FetchRejects(req) ==
    /\ BagIn(req, inflight)
    /\ Commit(Failed(Page, req.kind))
    /\ Settled(req)
    /\ UNCHANGED extended

\* fetch resolves with a response of some status and response.json() rejects:
\* the body is not JSON.
JsonRejects(req, ok) ==
    /\ BagIn(req, inflight)
    /\ Commit(Failed(Page, req.kind))
    /\ Settled(req)
    /\ UNCHANGED extended

\* fetch resolves with a response of some status and response.json() resolves to
\* data, which the handler renders.
JsonResolves(req, ok, data) ==
    /\ BagIn(req, inflight)
    /\ data \in Bodies(req.kind, ok)
    /\ Commit(Completed(Page, req.kind, data))
    /\ Settled(req)
    /\ UNCHANGED extended

Next ==
    \/ RunSimulation
    \/ CompareScenarios
    \/ SimulateAdvancedPattern
    \/ \E req \in BagToSet(inflight) : FetchRejects(req)
    \/ \E req \in BagToSet(inflight), ok \in BOOLEAN : JsonRejects(req, ok)
    \/ \E req \in BagToSet(inflight), ok \in BOOLEAN :
           \E data \in Bodies(req.kind, ok) : JsonResolves(req, ok, data)

Spec == Init /\ [][Next]_vars

-----------------------------------------------------------------------------
(* The binning alone: createHistogram applied to every bounded sample set *)

\* the sample values the model draws from
Samples == {0, 3, 4, 5, 7, 20}

RECURSIVE SeqsUpTo(_, _)
SeqsUpTo(S, n) ==
    IF n = 0 THEN {<< >>}
    ELSE LET shorter == SeqsUpTo(S, n - 1)
         IN  shorter \cup {Append(q, x) : q \in {t \in shorter : Len(t) = n - 1}, x \in S}

\* the non-empty sample sets of at most MaxSamples samples
SampleSets == SeqsUpTo(Samples, MaxSamples) \ {<< >>}

\* createHistogram(data) is called on the page
CallCreateHistogram(data) ==
    /\ Commit(createHistogram(Page, << data >>).pg)
    /\ UNCHANGED << extended, inflight >>

NextHistogram == \E data \in SampleSets : CallCreateHistogram(data)

SpecHistogram == Init /\ [][NextHistogram]_vars

-----------------------------------------------------------------------------
(* The rules alone: generateRecommendations applied to every bounded result *)

\* the metrics the rules read, at and around every threshold, in thousandths
RecInputs ==
    [avg_max_queue          : {10000, 60000, 60100, 100000, 100100},
     avg_service_rate       : {699, 700},
     avg_waiting_time       : {10000, 10010},
     avg_accidents_per_hour : {2000, 2010},
     prob_severe_jam        : {200, 201}]

\* generateRecommendations(data) is called on the page
CallGenerateRecommendations(data) ==
    /\ Commit(generateRecommendations(Page, data).pg)
    /\ UNCHANGED << extended, inflight >>

NextRecommendations == \E data \in RecInputs : CallGenerateRecommendations(data)

SpecRecommendations == Init /\ [][NextRecommendations]_vars

-----------------------------------------------------------------------------
(* The comparison presenter alone: displayComparison applied to every bounded *)
(* mapping of scenarios                                                        *)

\* scenarios compareScenarios asks for
ScenarioNames == {"baseline", "optimized", "heavy_traffic"}

\* the entries a mapping can have
Entries == {Entry(n, r) : n \in ScenarioNames,
                         r \in {Summary(JamResult), Summary(ClearResult)}}

\* the mappings of at most MaxScenarios scenarios, in every iteration order: the
\* keys of an object are distinct
ComparisonInputs ==
    {m \in SeqsUpTo(Entries, MaxScenarios) :
        \A i, j \in DOMAIN m : i # j => m[i].scenario # m[j].scenario}

\* displayComparison(data) is called on the page
CallDisplayComparison(data) ==
    /\ Commit(displayComparison(Page, data).pg)
    /\ UNCHANGED << extended, inflight >>

NextComparison == \E data \in ComparisonInputs : CallDisplayComparison(data)

SpecComparison == Init /\ [][NextComparison]_vars

-----------------------------------------------------------------------------
(* The results presenter alone: displayResults applied to a sequence of bodies *)

\* the bodies displayResults is called with: complete, lacking any one field, or
\* the error object
DisplayInputs ==
    {ClearResult, JamResult, ErrorBody}
        \cup {Without(JamResult, f) : f \in DOMAIN JamResult}

\* displayResults(data) is called on the page; when it throws, the page stays as
\* the call left it
CallDisplayResults(data) ==
    /\ Commit(displayResults(Page, data).pg)
    /\ UNCHANGED << extended, inflight >>

NextDisplay == \E data \in DisplayInputs : CallDisplayResults(data)

SpecDisplay == Init /\ [][NextDisplay]_vars

-----------------------------------------------------------------------------
(* Properties *)

RECURSIVE SeqSum(_)
SeqSum(s) == IF s = << >> THEN 0 ELSE s[1] + SeqSum(Tail(s))

\* what the chart of a handle draws on its canvas: nothing once destroyed
Drawn(pg, handle) == IF pg[handle].live THEN << pg[handle] >> ELSE << >>

\* the ids of the elements inside the results panel
ResultIds ==
    {"avgQueue", "avgWait", "serviceRate", "trafficLevelCard", "trafficLevel",
     "trafficDesc", "probLight", "probLightVal", "probModerate", "probModerateVal",
     "probSevere", "probSevereVal", "recommendationsList"}

\* what the results panel shows: its elements and its two charts
ResultsContents(pg) ==
    [elements   |-> [k \in ResultIds |-> pg.dom[k]],
     histogram  |-> Drawn(pg, "histogramChart"),
     timeSeries |-> Drawn(pg, "timeSeriesChart")]

\* the fields a SimulationResult is specified to have
RequiredFields ==
    {"avg_max_queue", "avg_waiting_time", "avg_service_rate",
     "avg_accidents_per_hour", "traffic_level", "traffic_level_description",
     "prob_light_traffic", "prob_moderate_jam", "prob_severe_jam",
     "all_max_queues", "sample_queue_history"}

\* a body that is a complete SimulationResult
WellFormed(d) == RequiredFields \subseteq DOMAIN d

\* the number of samples equal to the largest one
MaxCount(data) == Cardinality({k \in DOMAIN data : data[k] = SeqMax(data)})

\* C1: for every non-empty sample set handed to createHistogram, the 20 bin counts
\* sum to the number of samples, and the largest sample is counted in the last bin.
C1_CountsSumToSamples ==
    [][\A data \in SampleSets :
          CallCreateHistogram(data) =>
              /\ Len(histogramChart'.datasets) = bins
              /\ SeqSum(histogramChart'.datasets) = Len(data)
              /\ histogramChart'.datasets[bins] >= MaxCount(data)]_vars

\* all samples of the set are the same value
Identical(data) == \A i \in DOMAIN data : data[i] = data[1]

\* C2: for a sample set of one repeated value, createHistogram counts every sample
\* in bin 0 and none in any other bin.
C2_IdenticalSamplesInBinZero ==
    [][\A data \in SampleSets :
          Identical(data) /\ CallCreateHistogram(data) =>
              /\ histogramChart'.datasets[1] = Len(data)
              /\ \A i \in 2..bins : histogramChart'.datasets[i] = 0]_vars

\* C3: at most one simulation, comparison or advanced-pattern request is in flight
\* at any time.
C3_AtMostOneInFlight == BagCardinality(inflight) <= 1

\* C4: each view slot (histogram, time series, comparison) has at most one live
\* chart instance, whatever renders have run.
C4_OneLiveChartPerSlot == \A c \in Canvases : charts[c] <= 1

\* A histogram has been rendered again after an earlier render of both charts: the
\* time series of the earlier render was destroyed by a render that had already
\* replaced the histogram, and one histogram is live.
C4_Witness ==
    /\ timeSeriesChart = Destroyed
    /\ histogramChart.live
    /\ charts["histogramChart"] = 1

\* the handler req ends in this step with a failure notice
FailureStep(req) == Settled(req) /\ alerts' # << >>

\* C5: when a simulation or comparison request fails, the loading state is cleared
\* and the results view is as before the request: displayed if it was displayed when
\* the request started, with the contents unchanged.
C5_PriorResultsUntouched ==
    [][\A req \in BagToSet(inflight) :
          req.kind \in {"simulation", "comparison"} /\ FailureStep(req) =>
              /\ dom'.loading = "none"
              /\ req.shown => dom'.results = "block"
              /\ ResultsContents(Page)' = ResultsContents(Page)]_vars

\* the parts of the results view displayResults updates
Parts(pg) ==
    [panel           |-> pg.dom.results,
     metricCards     |-> << pg.dom.avgQueue, pg.dom.avgWait, pg.dom.serviceRate >>,
     levelCard       |-> << pg.dom.trafficLevelCard, pg.dom.trafficLevel,
                            pg.dom.trafficDesc >>,
     probabilityBars |-> << pg.dom.probLight, pg.dom.probLightVal, pg.dom.probModerate,
                            pg.dom.probModerateVal, pg.dom.probSevere,
                            pg.dom.probSevereVal >>,
     histogram       |-> Drawn(pg, "histogramChart"),
     timeSeries      |-> Drawn(pg, "timeSeriesChart"),
     recommendations |-> pg.dom.recommendationsList]

\* the parts this step changed
Changed == {k \in DOMAIN Parts(Page) : Parts(Page)'[k] # Parts(Page)[k]}

\* C6: when displayResults fails on a response (a failure notice follows), it has
\* updated every part of the results view or none of them.
C6_NoPartialRendering ==
    [][\A req \in BagToSet(inflight), ok \in BOOLEAN :
          \A data \in Bodies(req.kind, ok) :
              /\ req.kind # "comparison"
              /\ JsonResolves(req, ok, data)
              /\ alerts' # << >>
              => Changed \in {{}, DOMAIN Parts(Page)}]_vars

\* C7: whenever a runSimulation request ends, on any outcome, the loading indicator
\* is hidden and the run button is enabled with its idle label.
C7_RunButtonRestored ==
    [][\A req \in BagToSet(inflight) :
          req.kind = "simulation" /\ Settled(req) =>
              /\ dom'.loading = "none"
              /\ ~dom'.btnDisabled
              /\ dom'.btnText = "Run Simulation"]_vars

\* A runSimulation request has ended with an exception while rendering (the first
\* result ever rendered stopped after the metric cards, with the failure notice) and
\* the button and the loading indicator are idle again.
C7_Witness ==
    /\ alerts = << "Simulation failed. Please try again." >>
    /\ dom.avgQueue = "120.5"
    /\ dom.trafficLevel = ""
    /\ dom.loading = "none"
    /\ ~dom.btnDisabled
    /\ dom.btnText = "Run Simulation"

\* the failed request shows one failure notice and nothing of its response
OneNoticeNothingShown ==
    /\ Len(alerts') = 1
    /\ ResultsContents(Page)' = ResultsContents(Page)

\* C8: a simulation request that fails by (a) a transport failure, (b) a non-success
\* status or (c) a malformed or incomplete body gives exactly one failure notice,
\* and its response is not displayed.
C8_OneNoticePerFailure ==
    [][\A req \in BagToSet(inflight) :
          req.kind = "simulation" =>
              /\ FetchRejects(req) => OneNoticeNothingShown
              /\ \A ok \in BOOLEAN : JsonRejects(req, ok) => OneNoticeNothingShown
              /\ \A ok \in BOOLEAN :
                     \A data \in Bodies(req.kind, ok) :
                         JsonResolves(req, ok, data) /\ (~ok \/ ~WellFormed(data))
                             => OneNoticeNothingShown]_vars

\* the rules of the claim's table that hold of the metrics, as (title, class) pairs
ExpectedRules(d) ==
    {r \in {[title |-> "Critical: Very High Queue Length",
             className |-> "recommendation-item critical",
             fires |-> d.avg_max_queue > 100000],
            [title |-> "Warning: Moderate Congestion",
             className |-> "recommendation-item warning",
             fires |-> d.avg_max_queue > 60000 /\ d.avg_max_queue <= 100000],
            [title |-> "Critical: Low Service Rate",
             className |-> "recommendation-item critical",
             fires |-> d.avg_service_rate < 700],
            [title |-> "High Waiting Time",
             className |-> "recommendation-item warning",
             fires |-> d.avg_waiting_time > 10000],
            [title |-> "High Accident Frequency",
             className |-> "recommendation-item info",
             fires |-> d.avg_accidents_per_hour > 2000],
            [title |-> "High Severe Jam Probability",
             className |-> "recommendation-item critical",
             fires |-> d.prob_severe_jam > 200]} : r.fires}

\* the recommendation items a container shows, as (title, class) pairs
ShownRules(list) ==
    {[title |-> list[i].title, className |-> list[i].className, fires |-> TRUE] :
        i \in {j \in DOMAIN list : list[j].tag = "div"}}

\* C9: generateRecommendations shows exactly the rules whose condition holds, each
\* once and each independently of the others, with the boundaries of the table.
C9_ExactlyTheFiringRules ==
    [][\A d \in RecInputs :
          CallGenerateRecommendations(d) =>
              LET list == dom'.recommendationsList
              IN  /\ ShownRules(list) = ExpectedRules(d)
                  /\ Cardinality({j \in DOMAIN list : list[j].tag = "div"})
                         = Cardinality(ExpectedRules(d))]_vars

\* The boundaries have been evaluated: avg_max_queue = 100.0 showed the moderate
\* rule alone (not very-high), with avg_service_rate = 0.7 showing no rule.
C9_Witness ==
    /\ Len(dom.recommendationsList) = 1
    /\ dom.recommendationsList[1].title = "Warning: Moderate Congestion"
    /\ dom.recommendationsList[1].value = "100.0"

\* C10: generateRecommendations shows the "no issues" paragraph if and only if no
\* rule fires; it is then the only child, and the container is never left empty.
C10_NoIssuesIffNoRule ==
    [][\A d \in RecInputs :
          CallGenerateRecommendations(d) =>
              LET list == dom'.recommendationsList
                  noIssues == {j \in DOMAIN list : list[j].tag = "p"}
              IN  /\ list # << >>
                  /\ (noIssues # {}) <=> (ExpectedRules(d) = {})
                  /\ noIssues # {} => list = << NoIssues >>]_vars

\* An evaluation in which no rule fired has shown the "no issues" paragraph alone.
C10_Witness == dom.recommendationsList = << NoIssues >>


\* C15: for every non-empty sample set, createHistogram produces 20 bins that tile
\* [min, max]: bin 0 starts at min, each bin ends where the next starts, the last
\* bin ends at max, and no sample is counted in more than one bin.
C15_BinsTileTheRange ==
    [][\A data \in SampleSets :
          CallCreateHistogram(data) =>
              LET loop == Bins(data)
              IN  /\ Len(histogramChart'.datasets) = bins
                  /\ Len(histogramChart'.labels) = bins
                  /\ loop[1].start = ToNumber(SeqMin(data))
                  /\ \A i \in 1..(bins - 1) : loop[i].end = loop[i + 1].start
                  /\ loop[bins].end = ToNumber(SeqMax(data))
                  /\ \A k \in DOMAIN data :
                         Cardinality({i \in 1..bins :
                             InBin(loop[i].start, loop[i].end, data[k])}) <= 1]_vars


\* the place of a recommendation's rule in the evaluation order: queue length,
\* service rate, waiting time, accident frequency, severe-jam probability
RuleRank(title) ==
    CASE title = "Critical: Very High Queue Length" -> 1
      [] title = "Warning: Moderate Congestion"     -> 1
      [] title = "Critical: Low Service Rate"       -> 2
      [] title = "High Waiting Time"                -> 3
      [] title = "High Accident Frequency"          -> 4
      [] title = "High Severe Jam Probability"      -> 5

\* the titles of a sequence of recommendations or of displayed items
Titles(list) == [i \in DOMAIN list |-> list[i].title]

\* C11: the recommendations are emitted in the rule-evaluation order (queue length,
\* service rate, waiting time, accident frequency, severe-jam probability) whatever
\* subset of rules fires, and the displayed items are in the order of emission.
C11_RuleEvaluationOrder ==
    [][\A d \in RecInputs :
          CallGenerateRecommendations(d) =>
              LET emitted == recommendations(d)
                  list    == dom'.recommendationsList
              IN  /\ \A i, j \in DOMAIN emitted :
                         i < j => RuleRank(emitted[i].title) < RuleRank(emitted[j].title)
                  /\ emitted # << >> => Titles(list) = Titles(emitted)]_vars

\* All five rules have fired and their items are displayed, queue length first and
\* severe-jam probability last.
C11_Witness ==
    Titles(dom.recommendationsList) =
        << "Critical: Very High Queue Length", "Critical: Low Service Rate",
           "High Waiting Time", "High Accident Frequency",
           "High Severe Jam Probability" >>


\* the scenarios of a mapping, in its iteration order
Scenarios(data) == [i \in DOMAIN data |-> data[i].scenario]

\* C12: the comparison table has exactly one row per scenario of the mapping, in the
\* mapping's iteration order whatever the metric values are, and the labels of the
\* comparison chart are the same scenarios in the same order.
C12_ScenarioOrderKept ==
    [][\A data \in ComparisonInputs :
          CallDisplayComparison(data) =>
              /\ Scenarios(dom'.comparisonTable) = Scenarios(data)
              /\ comparisonChart'.live
              /\ comparisonChart'.labels = Scenarios(data)]_vars

\* A mapping whose scenarios are in neither alphabetical nor ascending-queue order
\* has been displayed as it came.
C12_Witness ==
    /\ Len(dom.comparisonTable) = 2
    /\ dom.comparisonTable[1].scenario = "optimized"
    /\ dom.comparisonTable[1].queue = "120.5 vehicles"
    /\ dom.comparisonTable[2].scenario = "baseline"
    /\ dom.comparisonTable[2].queue = "10.0 vehicles"
    /\ comparisonChart.labels = << "optimized", "baseline" >>


\* C13: a response to a simulation or advanced-pattern request that lacks a
\* required field is treated as a failure (a failure notice is raised) and nothing
\* of it is presented in the results view.
C13_IncompleteResponseRejected ==
    [][\A req \in BagToSet(inflight) :
          \A data \in SimulationBodies :
              /\ req.kind # "comparison"
              /\ ~WellFormed(data)
              /\ JsonResolves(req, TRUE, data)
              => /\ alerts' # << >>
                 /\ ResultsContents(Page)' = ResultsContents(Page)]_vars

\* the step is one of the user triggers
Trigger == RunSimulation \/ CompareScenarios \/ SimulateAdvancedPattern

\* C14: a trigger sends exactly one request, and no other step sends one: a handler
\* that ends, with a failure or without, leaves one request fewer pending and no new
\* one.
C14_OneRequestPerTrigger ==
    [][IF Trigger
       THEN BagCardinality(inflight') = BagCardinality(inflight) + 1
       ELSE /\ BagCardinality(inflight') = BagCardinality(inflight) - 1
            /\ \A req \in BagToSet(inflight') :
                   CopiesIn(req, inflight') <= CopiesIn(req, inflight)]_vars

\* A runSimulation request has failed in transport (the notice is up, the panel it
\* hid is still hidden) and no request is pending.
C14_Witness ==
    /\ alerts = << "Simulation failed. Please try again." >>
    /\ dom.results = "none"
    /\ dom.avgQueue = ""
    /\ inflight = EmptyBag

\* C16: after a displayResults call that succeeds, following any sequence of
\* calls, the recommendation list is the list derived from the result just
\* displayed and nothing else.
C16_RecommendationsOfLatestResult ==
    [][\A data \in DisplayInputs :
          ~displayResults(Page, data).threw /\ CallDisplayResults(data) =>
              dom'.recommendationsList = RecChildren(recommendations(data))]_vars

\* Two results have been displayed one after the other: the bar of the light-traffic
\* probability is still that of the first (the second has no such probability),
\* and the recommendations are the five of the second alone.
C16_Witness ==
    /\ dom.probLight = "90.0%"
    /\ dom.probLightVal = "NaN%"
    /\ dom.avgQueue = "120.5"
    /\ Len(dom.recommendationsList) = 5
    /\ \A i \in DOMAIN dom.recommendationsList : dom.recommendationsList[i].tag = "div"

\* C17: a response whose rendering failed (a failure notice follows) does not become
\* the export payload: currentResult and currentScenarioName stay those of the last
\* result displayed.
C17_ExportPayloadIsDisplayed ==
    [][\A req \in BagToSet(inflight), ok \in BOOLEAN :
          \A data \in Bodies(req.kind, ok) :
              /\ req.kind # "comparison"
              /\ JsonResolves(req, ok, data)
              /\ alerts' # << >>
              => /\ currentResult' = currentResult
                 /\ currentScenarioName' = currentScenarioName]_vars

\* C18: the results panel and the comparison panel are never both displayed.
C18_PanelsExclusive ==
    ~(dom.results = "block" /\ dom.comparisonResults = "block")

\* C19: the loading indicator is displayed exactly while a request is in flight.
C19_LoadingWhilePending ==
    (dom.loading = "block") <=> (inflight # EmptyBag)

\* the runSimulation requests in flight
PendingSimulations ==
    CopiesIn(Request("simulation", TRUE), inflight)
        + CopiesIn(Request("simulation", FALSE), inflight)

\* C20: the run button is disabled exactly while a runSimulation request is pending,
\* and at most one runSimulation request is in flight.
C20_RunButtonGuardsSimulation ==
    /\ dom.btnDisabled <=> PendingSimulations > 0
    /\ PendingSimulations <= 1

\* A runSimulation request is pending with the button disabled while a request of
\* another handler is in flight as well.
C20_Witness ==
    /\ dom.btnDisabled
    /\ dom.btnText = "Running..."
    /\ PendingSimulations = 1
    /\ BagCardinality(inflight) = 2


\* C21: displaying a well-formed SimulationResult a second time leaves the view as
\* the first display left it: the same elements and export values, one live
\* histogram and one live time series with the same contents and, in the extended
\* script, one group of export buttons.
C21_DisplayTwiceAsOnce ==
    [][\A data \in DisplayInputs :
          WellFormed(data) /\ CallDisplayResults(data) =>
              /\ ~displayResults(Page', data).threw
              /\ displayResults(Page', data).pg = Page'
              /\ histogramChart'.live /\ charts'["histogramChart"] = 1
              /\ timeSeriesChart'.live /\ charts'["timeSeriesChart"] = 1
              /\ extended => dom'.exportButtons = 1]_vars

\* The extended script has displayed a result that names its scenario: both charts
\* are live, the export buttons are there once and the export values are the
\* result's.
C21_Witness ==
    /\ extended
    /\ dom.results = "block"
    /\ dom.exportButtons = 1
    /\ currentResult = ClearResult
    /\ currentScenarioName = "baseline"
    /\ histogramChart.live /\ timeSeriesChart.live
    /\ dom.recommendationsList = << NoIssues >>

=============================================================================
